---- MODULE Spec2Model ----
(***************************************************************************)
(* Yahtzee scoring rules (src/src/Rules.js) and the score-sheet row        *)
(* (src/src/RuleRow.js).                                                   *)
(*                                                                         *)
(* A rule object is a record holding its class and the parameters its     *)
(* constructor assigned onto the instance.  A hand is the array of dice    *)
(* passed to evalRoll.  JavaScript values that may be undefined, a number  *)
(* or a string are tagged tuples.                                          *)
(***************************************************************************)
EXTENDS Integers, Sequences, FiniteSets, TLC

VARIABLES
    dice,    \* the array of dice most recently passed to (or about to be passed to) evalRoll
    rules,   \* the exported rule objects, by export name
    last,    \* the most recent evaluation: rule, hand passed, value returned
    log,     \* the evaluations of a session, oldest first
    scores   \* the score prop of each score-sheet row

vars == <<dice, rules, last, log, scores>>

\* number of dice in a hand, number of faces of a die
NumDice == 5
NumFaces == 6

\* bounds of the session and score-sheet specifications
MaxEvals == 3
MaxScored == 2

Faces == 1..NumFaces
Hands == [1..NumDice -> Faces]

\* hands used where a behaviour evaluates on several hands
SessionHands ==
    { <<2, 2, 3, 2, 5>>, <<1, 2, 3, 4, 5>> }

(***************************************************************************)
(* JavaScript values                                                       *)
(***************************************************************************)
Undefined == <<"undefined">>
Null == <<"null">>
Num(n) == <<"number", n>>
Str(s) == <<"string", s>>
Fn(f) == <<"function", f>>

(***************************************************************************)
(* class Rule: helpers                                                     *)
(***************************************************************************)
RECURSIVE reduceAdd(_, _, _)
reduceAdd(arr, i, prev) ==
    IF i > Len(arr) THEN prev ELSE reduceAdd(arr, i + 1, prev + arr[i])

\* a plausible slip: the reduce stops one element short
sum_dropLast(d) ==
    reduceAdd(SubSeq(d, 1, Len(d) - 1), 2, d[1])

\* dice.reduce((prev, curr) => prev + curr): no initial value, so the first
\* element seeds the accumulator and the callback runs from the second
sum(d) ==
    reduceAdd(d, 2, d[1])

\* a Map as the sequence of its <<key, value>> entries in insertion order
MapHas(m, k) == \E i \in 1..Len(m) : m[i][1] = k
MapGet(m, k) ==
    IF MapHas(m, k)
    THEN Num(m[CHOOSE i \in 1..Len(m) : m[i][1] = k][2])
    ELSE Undefined
MapSet(m, k, v) ==
    IF MapHas(m, k)
    THEN [i \in 1..Len(m) |-> IF m[i][1] = k THEN <<k, v>> ELSE m[i]]
    ELSE Append(m, <<k, v>>)

\* x || 0 for x a number or undefined
OrZero(x) ==
    IF x = Undefined THEN 0 ELSE IF x[2] = 0 THEN 0 ELSE x[2]

RECURSIVE freqLoop(_, _, _)
freqLoop(d, i, freqs) ==
    IF i > Len(d) THEN freqs
    ELSE freqLoop(d, i + 1, MapSet(freqs, d[i], OrZero(MapGet(freqs, d[i])) + 1))

\* a plausible slip: counts indexed by face value instead of by first occurrence
freq_byFace(d) ==
    [v \in Faces |-> Cardinality({i \in 1..Len(d) : d[i] = v})]

\* Array.from(freqs.values()): the counts in the order the values first occur
freq(d) ==
    LET freqs == freqLoop(d, 1, <<>>)
    IN  [i \in 1..Len(freqs) |-> freqs[i][2]]

\* a plausible slip: >= in place of ===
count_atLeast(d, val) ==
    Cardinality({i \in 1..Len(d) : d[i] >= val})

\* dice.filter((d) => d === val).length
count(d, val) ==
    Cardinality({i \in 1..Len(d) : d[i] = val})

\* new Set(dice)
SetOf(d) == {d[i] : i \in 1..Len(d)}

(***************************************************************************)
(* The subclasses' evalRoll                                                *)
(***************************************************************************)
TotalOneNumber_evalRoll(self, d) ==
    self.val * count(d, self.val)

\* a plausible slip: > in place of >=
SumDistro_evalRoll_strict(self, d) ==
    LET freqs == freq(d)
    IN  IF \E i \in 1..Len(freqs) : freqs[i] > self.count THEN sum(d) ELSE 0

\* this.count is the own property set by the constructor, not Rule.count
SumDistro_evalRoll(self, d) ==
    LET freqs == freq(d)
    IN  IF \E i \in 1..Len(freqs) : freqs[i] >= self.count THEN sum(d) ELSE 0

\* a plausible slip: the pair is not asked for
FullHouse_evalRoll_noPair(self, d) ==
    LET freqs == freq(d)
    IN  IF \E i \in 1..Len(freqs) : freqs[i] = 3 THEN self.score ELSE 0

FullHouse_evalRoll(self, d) ==
    LET freqs == freq(d)
    IN  IF /\ \E i \in 1..Len(freqs) : freqs[i] = 2
           /\ \E i \in 1..Len(freqs) : freqs[i] = 3
        THEN self.score
        ELSE 0

\* a plausible slip: the second check forgets the 3
SmallStraight_evalRoll_no3(self, dd) ==
    LET d == SetOf(dd)
    IN  IF 2 \in d /\ 4 \in d /\ 3 \in d /\ (5 \in d \/ 1 \in d) THEN self.score
        ELSE IF 4 \in d /\ 5 \in d /\ (6 \in d \/ 2 \in d) THEN self.score
        ELSE 0

SmallStraight_evalRoll(self, dd) ==
    LET d == SetOf(dd)
    IN  IF 2 \in d /\ 4 \in d /\ 3 \in d /\ (5 \in d \/ 1 \in d) THEN self.score
        ELSE IF 3 \in d /\ 4 \in d /\ 5 \in d /\ (6 \in d \/ 2 \in d) THEN self.score
        ELSE 0

\* a plausible slip: the 1-and-6 exclusion is left out
LargeStraight_evalRoll_size(self, dd) ==
    LET d == SetOf(dd)
    IN  IF Cardinality(d) = 5 THEN self.score ELSE 0

LargeStraight_evalRoll(self, dd) ==
    LET d == SetOf(dd)
    IN  IF Cardinality(d) = 5 /\ (~(1 \in d) \/ ~(6 \in d)) THEN self.score ELSE 0

\* this.freq(dice)[0]: undefined on an empty array, never on a hand
Yahtzee_evalRoll(self, d) ==
    LET freqs == freq(d)
    IN  IF Len(freqs) >= 1 /\ freqs[1] = 5 THEN self.score ELSE 0

(***************************************************************************)
(* The exported rule instances                                             *)
(***************************************************************************)
ones == [cls |-> "TotalOneNumber", val |-> 1, description |-> "Sum of 1's"]
twos == [cls |-> "TotalOneNumber", val |-> 2, description |-> "Sum of 2's"]
threes == [cls |-> "TotalOneNumber", val |-> 3, description |-> "Sum of 3's"]
fours == [cls |-> "TotalOneNumber", val |-> 4, description |-> "Sum of 4's"]
fives == [cls |-> "TotalOneNumber", val |-> 5, description |-> "Sum of 5's"]
sixes == [cls |-> "TotalOneNumber", val |-> 6, description |-> "Sum of 6's"]
threeOfKind ==
    [cls |-> "SumDistro", count |-> 3, description |-> "Sum of three of a kind"]
fourOfKind ==
    [cls |-> "SumDistro", count |-> 4, description |-> "Sum of four of a kind"]
\* a plausible slip: the digits of the award swapped
fullHouse_typo ==
    [cls |-> "FullHouse", score |-> 52, description |-> "Full House (25 points)"]
fullHouse ==
    [cls |-> "FullHouse", score |-> 25, description |-> "Full House (25 points)"]
smallStraight ==
    [cls |-> "SmallStraight", score |-> 30, description |-> "Small Straight (30 points)"]
largeStraight ==
    [cls |-> "LargeStraight", score |-> 40, description |-> "Large Straight (40 points)"]
yahtzee ==
    [cls |-> "Yahtzee", score |-> 50, description |-> "Yahtzee (50 points)"]
chance ==
    [cls |-> "SumDistro", count |-> 0, description |-> "Sum of all dice"]

RuleNames ==
    { "ones", "twos", "threes", "fours", "fives", "sixes", "threeOfKind",
      "fourOfKind", "fullHouse", "smallStraight", "largeStraight", "yahtzee",
      "chance" }

Catalog ==
    [r \in RuleNames |->
        CASE r = "ones" -> ones
          [] r = "twos" -> twos
          [] r = "threes" -> threes
          [] r = "fours" -> fours
          [] r = "fives" -> fives
          [] r = "sixes" -> sixes
          [] r = "threeOfKind" -> threeOfKind
          [] r = "fourOfKind" -> fourOfKind
          [] r = "fullHouse" -> fullHouse
          [] r = "smallStraight" -> smallStraight
          [] r = "largeStraight" -> largeStraight
          [] r = "yahtzee" -> yahtzee
          [] r = "chance" -> chance]

\* the value rule.evalRoll(dice) returns, by the class of the instance
evalRoll(self, d) ==
    CASE self.cls = "TotalOneNumber" -> TotalOneNumber_evalRoll(self, d)
      [] self.cls = "SumDistro" -> SumDistro_evalRoll(self, d)
      [] self.cls = "FullHouse" -> FullHouse_evalRoll(self, d)
      [] self.cls = "SmallStraight" -> SmallStraight_evalRoll(self, d)
      [] self.cls = "LargeStraight" -> LargeStraight_evalRoll(self, d)
      [] self.cls = "Yahtzee" -> Yahtzee_evalRoll(self, d)

\* a plausible slip: the hand is sorted in place before it is examined
Call_sortsHand(r, rs, d) ==
    [ret |-> evalRoll(rs[r], d),
     rules |-> rs,
     dice |-> SortSeq(d, LAMBDA a, b : a < b)]

\* One call rules[r].evalRoll(d): the value returned and what the call leaves
\* in the objects it can reach.  No method assigns to this or to the array:
\* reduce, filter, for-of, Map and Set only read it.
Call(r, rs, d) ==
    [ret |-> evalRoll(rs[r], d), rules |-> rs, dice |-> d]

(***************************************************************************)
(* Evaluating a rule on a hand                                             *)
(***************************************************************************)
NoEval == [rule |-> "none", hand |-> <<>>, after |-> <<>>, score |-> 0]

Evaluate(r, d) ==
    LET out == Call(r, rules, d)
    IN  /\ rules' = out.rules
        /\ dice' = out.dice
        /\ last' = [rule |-> r, hand |-> d, after |-> out.dice, score |-> out.ret]

Init ==
    /\ dice \in Hands
    /\ rules = Catalog
    /\ last = NoEval
    /\ log = <<>>
    /\ scores = [r \in RuleNames |-> Undefined]

\* One hand, one rule, one call: any rule of the catalog is applied to the hand.
EvalRule ==
    /\ last = NoEval
    /\ \E r \in RuleNames : Evaluate(r, dice)
    /\ UNCHANGED <<log, scores>>

Next == EvalRule

Spec == Init /\ [][Next]_vars

(***************************************************************************)
(* A session: a sequence of evaluations of any rules on any hands          *)
(***************************************************************************)
SessionInit ==
    /\ Init
    /\ dice \in SessionHands

EvalLogged ==
    /\ Len(log) < MaxEvals
    /\ \E r \in RuleNames, d \in SessionHands : Evaluate(r, d)
    /\ log' = Append(log, last')
    /\ UNCHANGED scores

SessionNext == EvalLogged

SessionSpec == SessionInit /\ [][SessionNext]_vars

(***************************************************************************)
(* class RuleRow                                                           *)
(***************************************************************************)
\* a plausible slip: a falsy test, which takes a score of 0 for no score
isActive_falsy(score) ==
    score = Undefined \/ score = Num(0)

\* const isActive = score === undefined
isActive(score) ==
    score = Undefined

\* what render() returns for the props: the class and the click handler of
\* the <tr>, and the contents of its two cells
RuleRow_render(props) ==
    LET active == isActive(props.score)
        disabled == ~active
    IN  [className |-> "RuleRow RuleRow-" \o (IF active THEN "active" ELSE "disabled"),
         onClick |-> IF disabled THEN Null ELSE props.doScore,
         nameCell |-> props.name,
         scoreCell |-> IF disabled THEN props.score ELSE props.description]

\* the props the score sheet hands to the row of rule r
RowProps(r) ==
    [score |-> scores[r],
     name |-> Str(r),
     doScore |-> Fn(r),
     description |-> Str(rules[r].description)]

\* doScore for the row of rule r while the hand is d: the rule's value on
\* the hand becomes the row's score
doScore(r, d) ==
    /\ Evaluate(r, d)
    /\ scores' = [scores EXCEPT ![r] = Num(last'.score)]
    /\ UNCHANGED log

ScoredRows == {r \in RuleNames : scores[r] # Undefined}

\* a click on the row of rule r while the hand is d
Click(r, d) ==
    LET handler == RuleRow_render(RowProps(r)).onClick
    IN  \/ /\ handler = Null
           /\ UNCHANGED vars
        \/ /\ handler = Fn(r)
           /\ Cardinality(ScoredRows) < MaxScored
           /\ doScore(r, d)

SheetNext == \E r \in RuleNames, d \in SessionHands : Click(r, d)

SheetSpec == SessionInit /\ [][SheetNext]_vars

(***************************************************************************)
(* Properties                                                              *)
(***************************************************************************)
\* the number of dice of hand h that show v, and the total of its five dice
Occ(h, v) == Cardinality({i \in DOMAIN h : h[i] = v})
Total(h) == h[1] + h[2] + h[3] + h[4] + h[5]
FaceRule == <<"ones", "twos", "threes", "fours", "fives", "sixes">>

\* C1: for every hand and every face v, the Single-Value Total rule for v
\* returns v times the number of dice of the hand equal to v.
C1_SingleValueTotal ==
    \A v \in Faces :
        last.rule = FaceRule[v] => last.score = v * Occ(last.hand, v)

\* twos on [2,2,3,2,5] is 6
C1_Witness ==
    /\ last.rule = "twos"
    /\ last.hand = <<2, 2, 3, 2, 5>>
    /\ last.score = 6

\* C2: threeOfKind (k = 3) and fourOfKind (k = 4) return the sum of the five
\* dice if some face occurs at least k times in the hand, and 0 otherwise.
C2_OfKind ==
    \A k \in {3, 4} :
        last.rule = (IF k = 3 THEN "threeOfKind" ELSE "fourOfKind") =>
            last.score = IF \E v \in Faces : Occ(last.hand, v) >= k
                         THEN Total(last.hand)
                         ELSE 0

\* threeOfKind on [4,4,4,2,1] is 15
C2_Witness ==
    /\ last.rule = "threeOfKind"
    /\ last.hand = <<4, 4, 4, 2, 1>>
    /\ last.score = 15

\* C3: chance returns the sum of the five dice whatever the distribution of
\* the faces, and never 0.
C3_Chance ==
    last.rule = "chance" =>
        /\ last.score = Total(last.hand)
        /\ last.score # 0

\* chance on a hand in which no face repeats
C3_Witness ==
    /\ last.rule = "chance"
    /\ last.hand = <<1, 2, 3, 4, 6>>
    /\ last.score = 16

\* C4: fullHouse returns 25 exactly when one face occurs exactly 3 times and
\* another exactly 2 times, and 0 otherwise (so five equal dice score 0).
C4_FullHouse ==
    last.rule = "fullHouse" =>
        last.score = IF \E a, b \in Faces :
                            /\ a # b
                            /\ Occ(last.hand, a) = 3
                            /\ Occ(last.hand, b) = 2
                     THEN 25
                     ELSE 0

\* fullHouse on [2,2,3,3,3] is 25
C4_Witness ==
    /\ last.rule = "fullHouse"
    /\ last.hand = <<2, 2, 3, 3, 3>>
    /\ last.score = 25

\* C5: smallStraight returns 30 exactly when the distinct faces of the hand
\* contain all of 1-2-3-4, all of 2-3-4-5 or all of 3-4-5-6, and 0 otherwise.
C5_SmallStraight ==
    last.rule = "smallStraight" =>
        last.score = IF \E lo \in 1..3 :
                            \A f \in lo..(lo + 3) : Occ(last.hand, f) > 0
                     THEN 30
                     ELSE 0

\* smallStraight on [1,2,3,4,4] is 30
C5_Witness ==
    /\ last.rule = "smallStraight"
    /\ last.hand = <<1, 2, 3, 4, 4>>
    /\ last.score = 30

\* C6: largeStraight returns 40 exactly when the five dice are, in some
\* order, 1-2-3-4-5 or 2-3-4-5-6, and 0 otherwise.
C6_LargeStraight ==
    last.rule = "largeStraight" =>
        last.score = IF \/ \A f \in 1..5 : Occ(last.hand, f) = 1
                        \/ \A f \in 2..6 : Occ(last.hand, f) = 1
                     THEN 40
                     ELSE 0

\* largeStraight on 2-3-4-5-6 out of order is 40
C6_Witness ==
    /\ last.rule = "largeStraight"
    /\ last.hand = <<6, 3, 2, 5, 4>>
    /\ last.score = 40

\* C7: yahtzee returns 50 exactly when the five dice show one distinct face,
\* and 0 otherwise, in any order of the dice.
C7_Yahtzee ==
    last.rule = "yahtzee" =>
        last.score = IF \E v \in Faces : \A i \in DOMAIN last.hand : last.hand[i] = v
                     THEN 50
                     ELSE 0

\* yahtzee on [6,6,6,6,6] is 50
C7_Witness ==
    /\ last.rule = "yahtzee"
    /\ last.hand = <<6, 6, 6, 6, 6>>
    /\ last.score = 50

\* the largest award of each rule, as the claim lists them
MaxAward(r) ==
    CASE r = "fullHouse" -> 25
      [] r = "largeStraight" -> 40
      [] r = "yahtzee" -> 50
      [] OTHER -> 30

\* C8: every rule of the catalog returns, on every hand, a non-negative
\* integer no greater than its maximum award.
C8_Bounded ==
    \A r \in RuleNames :
        last.rule = r => last.score \in Nat /\ last.score <= MaxAward(r)

\* a rule reaching its maximum: sixes on [6,6,6,6,6] is 30
C8_Witness ==
    /\ last.rule = "sixes"
    /\ last.hand = <<6, 6, 6, 6, 6>>
    /\ last.score = 30

RowAsClaimed(r) ==
    LET row == RuleRow_render(RowProps(r))
    IN  IF scores[r] = Undefined
        THEN /\ row.className = "RuleRow RuleRow-active"
             /\ row.scoreCell = Str(rules[r].description)
             /\ row.onClick = Fn(r)
        ELSE /\ row.className = "RuleRow RuleRow-disabled"
             /\ row.scoreCell = scores[r]
             /\ row.onClick = Null

\* C10: a row is active, shows the description and invokes doScore on a click
\* exactly while its score is undefined; with any defined score, 0 included,
\* it is disabled, shows the score and a click invokes nothing, so a score
\* once set is never set again through the row.
C10_RowClickable ==
    /\ [](\A r \in RuleNames : RowAsClaimed(r))
    /\ [][\A r \in RuleNames : scores[r] # Undefined => scores'[r] = scores[r]]_vars

\* a row scored with 0 points is disabled while another is still active
C10_Witness ==
    /\ scores["yahtzee"] = Num(0)
    /\ RuleRow_render(RowProps("yahtzee")).onClick = Null
    /\ scores["chance"] = Undefined
    /\ RuleRow_render(RowProps("chance")).onClick = Fn("chance")

====
